---- MODULE Spec2Model ----
(***************************************************************************)
(* Machine Downtime Predictor (src/app.py): a Streamlit script.  Streamlit *)
(* re-executes main() from top to bottom after every user interaction, so  *)
(* every action below is one complete execution of main() on the widget    *)
(* state left by the interaction that triggered it.                        *)
(*                                                                         *)
(* Numeric cell values are held in tenths (2.5 is 25, 8000 is 80000), so   *)
(* that int() and float() are modelled by what they do to the value.       *)
(***************************************************************************)
EXTENDS Integers, Sequences, FiniteSets, TLC

VARIABLES
    uploaded_file,  \* the file_uploader widget: <<>> (None) or <<file>>
    sidebar,        \* values the user typed into sidebar number inputs
    clicked,        \* whether this run was triggered by the Predict button
    input_df,       \* local input_df after the input column: <<>> (None) or <<df>>
    msgs,           \* st.success / st.error / st.warning boxes shown by this run
    missing_shown,  \* the columns named by the 'Missing required columns' error
    calls,          \* calls made on preprocessor / model by this run, in order
    model_proba,    \* what model.predict_proba returned in this run (<<>> if not reached)
    prediction,     \* what model.predict returned in this run (<<>> if not reached)
    status,         \* the 'Prediction Result' box: <<>> or <<[class, text]>>
    guide,          \* the Interpretation Guide: <<>> or <<[label -> meaning]>>
    detail          \* the 'Detailed Results' table: <<>> or <<df>>

vars == <<uploaded_file, sidebar, clicked, input_df, msgs, missing_shown,
          calls, model_proba, prediction, status, guide, detail>>

-----------------------------------------------------------------------------
(* Bounds of the model *)

\* longest uploaded table, in rows
MaxRows == 2

-----------------------------------------------------------------------------
(* Generic helpers *)

Range(s) == {s[i] : i \in DOMAIN s}

None == <<>>

Some(x) == <<x>>

\* str.endswith on a string held as a sequence of characters
endswith(s, suffix) ==
    /\ Len(suffix) <= Len(s)
    /\ SubSeq(s, Len(s) - Len(suffix) + 1, Len(s)) = suffix

-----------------------------------------------------------------------------
(* STANDARD_PARAMS, in dict (insertion) order; values in tenths *)

STANDARD_PARAMS ==
    << <<"Hydraulic_Pressure(bar)", 1500>>,
       <<"Coolant_Pressure(bar)", 50>>,
       <<"Air_System_Pressure(bar)", 70>>,
       <<"Coolant_Temperature", 250>>,
       <<"Hydraulic_Oil_Temperature(°C)", 450>>,
       <<"Spindle_Bearing_Temperature(°C)", 600>>,
       <<"Spindle_Vibration(µm)", 100>>,
       <<"Tool_Vibration(µm)", 80>>,
       <<"Spindle_Speed(RPM)", 80000>>,
       <<"Voltage(volts)", 4000>>,
       <<"Torque(Nm)", 500>>,
       <<"Cutting(kN)", 25>> >>

\* list(STANDARD_PARAMS.keys())
keys == [i \in DOMAIN STANDARD_PARAMS |-> STANDARD_PARAMS[i][1]]

\* STANDARD_PARAMS[param]
default_val(param) ==
    LET i == CHOOSE j \in DOMAIN STANDARD_PARAMS : STANDARD_PARAMS[j][1] = param
    IN  STANDARD_PARAMS[i][2]

-----------------------------------------------------------------------------
(* Conversions of get_user_input; values in tenths *)

\* int(x): truncation toward zero
int(x) == IF x >= 0 THEN (x \div 10) * 10 ELSE -(((-x) \div 10) * 10)

\* float(x): every value of the model is exactly representable as a double
float(x) == x

\* the parameters the sidebar treats as integer inputs
integer_params == {"Spindle_Speed(RPM)", "Torque(Nm)", "Cutting(kN)"}

\* the value= argument a sidebar number input starts from
initial_value(param) ==
    IF param \in integer_params
    THEN int(default_val(param))
    ELSE float(default_val(param))

\* what st.sidebar.number_input returns: the typed value if the user typed
\* one, else the value= argument
number_input(state, param) ==
    IF param \in DOMAIN state THEN state[param] ELSE initial_value(param)

\* pd.DataFrame([inputs]): one row, one column per schema parameter
get_user_input(state) ==
    [columns |-> keys,
     rows    |-> << [param \in Range(keys) |-> number_input(state, param)] >>]

\* the sidebar fields the user of the model edits: one integer input and
\* one float input
Editable == {"Cutting(kN)", "Coolant_Temperature"}

\* values a user may type into a field: integer inputs have min_value=0 and
\* step 1, the others accept any float
typed_values(param) ==
    IF param \in integer_params
    THEN {0, int(default_val(param)) + 10}
    ELSE {default_val(param) + 5, -10}

-----------------------------------------------------------------------------
(* Uploaded files *)

dot_csv  == <<".", "c", "s", "v">>
dot_xls  == <<".", "x", "l", "s">>
dot_xlsx == <<".", "x", "l", "s", "x">>

\* the file_uploader's type=['csv', 'xls', 'xlsx']
uploader_types == {dot_csv, dot_xls, dot_xlsx}

lower_char(c) ==
    CASE c = "C" -> "c" [] c = "S" -> "s" [] c = "V" -> "v"
      [] c = "X" -> "x" [] c = "L" -> "l" [] OTHER -> c

lower(s) == [i \in DOMAIN s |-> lower_char(s[i])]

\* Streamlit compares the lower-cased extension of the name with the type list
file_uploader_admits(name) ==
    \E t \in uploader_types : endswith(lower(name), t)

FileNames ==
    { <<"m">> \o dot_csv, <<"m">> \o dot_xls, <<"m">> \o dot_xlsx,
      <<"m", ".", "C", "S", "V">>, <<"m", ".", "X", "L", "S", "X">>,
      <<"m", ".", "t", "x", "t">> }

Reverse(s) == [i \in DOMAIN s |-> s[Len(s) + 1 - i]]

Filter(s, keep) ==
    LET Test(x) == x \in keep IN SelectSeq(s, Test)

\* schema columns a file of the model may lack
Droppable == {"Coolant_Pressure(bar)", "Torque(Nm)", "Cutting(kN)"}

MissingSets == (SUBSET Droppable) \cup {Range(keys)}

\* column headers of the files of the model: the schema minus some columns,
\* with or without an identifier column, in schema order or reversed
ColumnLists ==
    { LET base  == IF extra THEN <<"Machine_ID">> \o keys ELSE keys
          kept  == Filter(base, Range(base) \ gone)
      IN  IF rev THEN Reverse(kept) ELSE kept
      : gone \in MissingSets, extra \in BOOLEAN, rev \in BOOLEAN }

\* a row is told from another by the value all its cells hold
RowValues == {1, 2}

RowLists == UNION { [1..n -> RowValues] : n \in 0..MaxRows }

DataFrames ==
    { [columns |-> cl,
       rows    |-> [i \in DOMAIN rl |-> [c \in Range(cl) |-> rl[i]]]]
      : cl \in ColumnLists, rl \in RowLists }

empty_df == [columns |-> <<>>, rows |-> <<>>]

\* parses: whether pd.read_csv / pd.read_excel returns a table for the content
Files ==
    { [name |-> n, parses |-> TRUE, df |-> d] : n \in FileNames, d \in DataFrames }
    \cup { [name |-> n, parses |-> FALSE, df |-> empty_df] : n \in FileNames }

-----------------------------------------------------------------------------
(* process_uploaded_file *)

UNSUPPORTED == "Unsupported file format. Please upload a CSV or Excel file."
MISSING     == "Missing required columns"
PROCESSING  == "Error processing file"
SUCCESS     == "File successfully uploaded and processed!"
WARNING     == "Please provide input parameters first"
PREDICTION  == "Error in prediction"

\* a validator that stops at the first absent column
missing_columns_first(df) ==
    LET absent == Range(keys) \ Range(df.columns)
    IN  IF absent = {} THEN {} ELSE {CHOOSE c \in absent : TRUE}

\* required_cols - set(df.columns)
missing_columns(df) == Range(keys) \ Range(df.columns)

\* a validator that reads the file and checks the schema before it looks at
\* the extension
process_uploaded_file_schema_first(file) ==
    IF ~file.parses
    THEN [ret |-> None, error |-> PROCESSING, missing |-> {}]
    ELSE IF ~(Range(keys) \subseteq Range(file.df.columns))
    THEN [ret |-> None, error |-> MISSING,
          missing |-> Range(keys) \ Range(file.df.columns)]
    ELSE IF endswith(file.name, dot_csv)
            \/ endswith(file.name, dot_xls) \/ endswith(file.name, dot_xlsx)
    THEN [ret |-> Some(file.df), error |-> "", missing |-> {}]
    ELSE [ret |-> None, error |-> UNSUPPORTED, missing |-> {}]

\* returns [ret, error, missing]: the value returned, the st.error shown
\* ("" when none) and the columns the error names
process_uploaded_file(file) ==
    IF endswith(file.name, dot_csv)
       \/ endswith(file.name, dot_xls) \/ endswith(file.name, dot_xlsx)
    THEN IF ~file.parses
         THEN [ret |-> None, error |-> PROCESSING, missing |-> {}]
         ELSE IF ~(Range(keys) \subseteq Range(file.df.columns))
              THEN [ret |-> None, error |-> MISSING,
                    missing |-> missing_columns(file.df)]
              ELSE [ret |-> Some(file.df), error |-> "", missing |-> {}]
    ELSE [ret |-> None, error |-> UNSUPPORTED, missing |-> {}]

-----------------------------------------------------------------------------
(* The pre-trained artifacts.  rfc.pkl and preprocessor.sav are not part of  *)
(* the repository: what they return is chosen by the environment.            *)

\* one row of predict_proba, in percent: <<P(classes_[0]), P(classes_[1])>>
ProbaRows == { <<70, 30>>, <<30, 70>> }

\* model.classes_ of a binary classifier trained on labels 0 and 1
classes_ == <<0, 1>>

\* RandomForestClassifier.predict: the class of the largest probability,
\* the first one on a tie
model_predict(proba_row) ==
    IF proba_row[2] > proba_row[1] THEN classes_[2] ELSE classes_[1]

\* where the environment makes a call of the prediction stage raise;
\* "detail" is any statement of the Detailed Results block (lines 201-204)
FailPoints == {"none", "transform", "predict", "predict_proba", "detail"}

-----------------------------------------------------------------------------
(* main *)

\* input_df[list(STANDARD_PARAMS.keys())]
select_columns(df) ==
    [columns |-> keys,
     rows    |-> [i \in DOMAIN df.rows |-> [c \in Range(keys) |-> df.rows[i][c]]]]

\* the class attribute of the Machine Status span
status_class(label) == IF label = 1 THEN "failure" ELSE "normal"

\* the text of the Machine Status span
status_text(label) ==
    IF label = 1 THEN "1 (NO Machine Failure)" ELSE "0 (Machine Failure)"

\* a status that reads the last row instead of the first
status_row_last(pred) == pred[Len(pred)]

\* which row of prediction the Machine Status span reads
status_row(pred) == pred[1]

\* the Interpretation Guide
interpretation_guide == (0 :> "Machine Failure") @@ (1 :> "NO Machine Failure")

\* which column of predict_proba becomes Failure_Probability (x[1])
failure_probability(x) == x[2]

\* input_df['Prediction'] = prediction;
\* input_df['Failure_Probability'] = [x[1] for x in model.predict_proba(...)]
detailed_results(df, pred, proba) ==
    [columns |-> df.columns \o <<"Prediction", "Failure_Probability">>,
     rows    |-> [i \in DOMAIN df.rows |->
                    df.rows[i] @@ ("Prediction" :> pred[i])
                               @@ ("Failure_Probability" :> failure_probability(proba[i]))]]

\* an input column that falls back to the sidebar values when the uploaded
\* file is rejected
input_column_fallback(file, state) ==
    LET r == IF file # None THEN process_uploaded_file(file[1])
             ELSE [ret |-> None, error |-> "", missing |-> {}]
    IN  IF file # None /\ r.ret # None
        THEN [input_df |-> r.ret, bound |-> TRUE, msgs |-> {SUCCESS},
              missing |-> {}]
        ELSE [input_df |-> Some(get_user_input(state)),
              bound    |-> TRUE,
              msgs     |-> IF file # None THEN {r.error} ELSE {},
              missing  |-> r.missing]

\* the input column of the page (lines 130-154)
input_column(file, state) ==
    IF file # None
    THEN LET r == process_uploaded_file(file[1])
         IN  [input_df |-> r.ret,
              bound    |-> TRUE,
              msgs     |-> IF r.ret # None THEN {SUCCESS} ELSE {r.error},
              missing  |-> r.missing]
    ELSE [input_df |-> Some(get_user_input(state)),
          bound    |-> TRUE,
          msgs     |-> {},
          missing  |-> {}]

no_prediction ==
    [calls |-> <<>>, model_proba |-> <<>>, prediction |-> <<>>,
     status |-> None, guide |-> None, detail |-> None, msgs |-> {}]

\* the body of the try block (lines 169-207) on a table df, where the
\* environment makes the call named fail raise and predict_proba return proba
try_prediction(df, fail, proba) ==
    LET selected == select_columns(df)
        n        == Len(selected.rows)
        pred     == [i \in 1..n |-> model_predict(proba[i])]
        shown    == [no_prediction EXCEPT
                       !.model_proba = proba,
                       !.prediction  = pred,
                       !.status = Some([class |-> status_class(status_row(pred)),
                                        text  |-> status_text(status_row(pred))]),
                       !.guide  = Some(interpretation_guide)]
    IN  IF fail = "transform"
        THEN [no_prediction EXCEPT !.calls = <<"transform">>, !.msgs = {PREDICTION}]
        ELSE IF fail = "predict"
        THEN [no_prediction EXCEPT !.calls = <<"transform", "predict">>,
                                   !.msgs = {PREDICTION}]
        ELSE IF fail = "predict_proba" \/ n = 0
        \* predict_proba(...)[0] on an empty result raises IndexError
        THEN [no_prediction EXCEPT
                !.calls = <<"transform", "predict", "predict_proba">>,
                !.prediction = IF fail = "predict_proba" THEN pred ELSE <<>>,
                !.msgs = {PREDICTION}]
        ELSE IF n > 1
        THEN IF fail = "detail"
             THEN [shown EXCEPT
                     !.calls = <<"transform", "predict", "predict_proba", "predict_proba">>,
                     !.msgs = {PREDICTION}]
             ELSE [shown EXCEPT
                     !.calls = <<"transform", "predict", "predict_proba", "predict_proba">>,
                     !.detail = Some(detailed_results(selected, pred, proba))]
        ELSE [shown EXCEPT !.calls = <<"transform", "predict", "predict_proba">>]

\* the results column of the page once the button is pressed (lines 164-207)
predict_button(col, fail, proba) ==
    IF ~col.bound
    THEN [no_prediction EXCEPT !.msgs = {WARNING}]
    ELSE IF col.input_df = None
    \* None[...] raises TypeError inside the try block
    THEN [no_prediction EXCEPT !.msgs = {PREDICTION}]
    ELSE try_prediction(col.input_df[1], fail, proba)

\* one execution of main()
main(file, state, button, fail, proba) ==
    LET col == input_column(file, state)
        out == IF button THEN predict_button(col, fail, proba) ELSE no_prediction
    IN  /\ input_df' = col.input_df
        /\ msgs' = col.msgs \cup out.msgs
        /\ missing_shown' = col.missing
        /\ calls' = out.calls
        /\ model_proba' = out.model_proba
        /\ prediction' = out.prediction
        /\ status' = out.status
        /\ guide' = out.guide
        /\ detail' = out.detail

-----------------------------------------------------------------------------
(* The session *)

\* number of rows the prediction stage would see
NumRows(file, state) ==
    LET col == input_column(file, state)
    IN  IF col.input_df = None THEN 0 ELSE Len(col.input_df[1].rows)

Init ==
    /\ uploaded_file = None
    /\ sidebar = <<>>
    /\ clicked = FALSE
    /\ input_df = Some(get_user_input(<<>>))
    /\ msgs = {}
    /\ missing_shown = {}
    /\ calls = <<>>
    /\ model_proba = <<>>
    /\ prediction = <<>>
    /\ status = None
    /\ guide = None
    /\ detail = None

\* the user puts a file into the (empty) uploader; the sidebar inputs are no
\* longer rendered, so Streamlit drops their state.  Replacing a file runs
\* main() on the new file alone, as removing it and uploading the other does.
Upload ==
    \E file \in Files :
        /\ uploaded_file = None
        /\ file_uploader_admits(file.name)
        /\ uploaded_file' = Some(file)
        /\ sidebar' = <<>>
        /\ clicked' = FALSE
        /\ main(Some(file), <<>>, FALSE, "none", <<>>)

\* the user removes the uploaded file
Remove ==
    /\ uploaded_file # None
    /\ uploaded_file' = None
    /\ sidebar' = <<>>
    /\ clicked' = FALSE
    /\ main(None, <<>>, FALSE, "none", <<>>)

\* the user types a value into a sidebar field (rendered only without a file)
Edit ==
    \E param \in Editable :
        \E v \in typed_values(param) :
            LET state == (param :> v) @@ sidebar
            IN  /\ uploaded_file = None
                /\ sidebar' = state
                /\ clicked' = FALSE
                /\ UNCHANGED uploaded_file
                /\ main(None, state, FALSE, "none", <<>>)

\* the user presses Predict Downtime
Predict ==
    \E fail \in FailPoints :
        \E proba \in [1..NumRows(uploaded_file, sidebar) -> ProbaRows] :
            /\ clicked' = TRUE
            /\ UNCHANGED <<uploaded_file, sidebar>>
            /\ main(uploaded_file, sidebar, TRUE, fail, proba)

Next == Upload \/ Remove \/ Edit \/ Predict

Spec == Init /\ [][Next]_vars

-----------------------------------------------------------------------------
(* Vocabulary of the properties *)

\* the uploaded file, when there is one
TheFile == uploaded_file[1]

\* the name ends in one of the extensions process_uploaded_file reads
SupportedExtension(name) ==
    \E ext \in {dot_csv, dot_xls, dot_xlsx} : endswith(name, ext)

\* the schema columns the uploaded table lacks
Absent == {k \in Range(keys) : k \notin Range(TheFile.df.columns)}

\* a supported, parsed upload: the tables the schema validator decides on
ParsedUpload ==
    /\ uploaded_file # None
    /\ SupportedExtension(TheFile.name)
    /\ TheFile.parses

\* the run was a Predict request on a table of at least one row that ended
\* without the 'Error in prediction' message
PredictSucceeded ==
    /\ clicked
    /\ input_df # None
    /\ Len(input_df[1].rows) >= 1
    /\ PREDICTION \notin msgs

\* the status text reads as a failure
SaysFailure(text) == text = "0 (Machine Failure)" \/ text = "1 (Machine Failure)"

\* the labels the Interpretation Guide declares to mean 'Machine Failure'
FailureLabels == {l \in DOMAIN guide[1] : guide[1][l] = "Machine Failure"}

\* the position of a label in model.classes_
ClassIndex(l) == CHOOSE i \in DOMAIN classes_ : classes_[i] = l

-----------------------------------------------------------------------------
(* Properties *)

\* C1: a supported upload that parses is accepted (the table is returned and
\* the success box shown) if and only if its columns include every
\* STANDARD_PARAMS key, whatever their order and whatever else it holds;
\* otherwise None is returned and the 'Missing required columns' error names
\* exactly the schema columns the table lacks.
C1_SchemaValidation ==
    ParsedUpload =>
        IF Absent = {}
        THEN /\ input_df = Some(TheFile.df)
             /\ SUCCESS \in msgs
             /\ MISSING \notin msgs
             /\ missing_shown = {}
        ELSE /\ input_df = None
             /\ SUCCESS \notin msgs
             /\ MISSING \in msgs
             /\ missing_shown = Absent

\* C1 witness: a table lacking two schema columns, holding an extra column,
\* has been rejected
C1_Witness ==
    /\ ParsedUpload
    /\ Cardinality(Absent) = 2
    /\ "Machine_ID" \in Range(TheFile.df.columns)
    /\ MISSING \in msgs

\* C2: a Predict request on a valid table of N >= 1 rows that succeeds shows
\* a result table of exactly N rows, row i being input row i with its
\* predicted label and its failure probability.
C2_ResultTablePerRow ==
    PredictSucceeded =>
        /\ detail # None
        /\ Len(detail[1].rows) = Len(input_df[1].rows)
        /\ \A i \in DOMAIN input_df[1].rows :
              /\ \A k \in Range(keys) :
                    detail[1].rows[i][k] = input_df[1].rows[i][k]
              /\ detail[1].rows[i]["Prediction"] = prediction[i]
              /\ "Failure_Probability" \in DOMAIN detail[1].rows[i]

\* C3: a Predict request that ends with 'Error in prediction' shows neither
\* the Prediction Result box nor the Detailed Results table.
C3_AllOrNothing ==
    PREDICTION \in msgs => (status = None /\ detail = None)

\* C4: while the uploaded table lacks a schema column, the schema error
\* naming the absent columns is shown and no call is made on the
\* preprocessor or the model, also when the run is a Predict request.
C4_NoPredictionOnSchemaError ==
    (ParsedUpload /\ Absent # {}) =>
        /\ MISSING \in msgs
        /\ Absent \subseteq missing_shown
        /\ calls = <<>>
        /\ status = None
        /\ detail = None

\* C4 witness: Predict was pressed on an upload lacking Coolant_Pressure(bar)
C4_Witness ==
    /\ ParsedUpload
    /\ "Coolant_Pressure(bar)" \in Absent
    /\ "Coolant_Pressure(bar)" \in missing_shown
    /\ clicked

\* C5: every Failure_Probability shown is the model's probability of the
\* class that the Interpretation Guide declares to mean 'Machine Failure'.
C5_FailureProbabilityOfFailureClass ==
    detail # None =>
        \A i \in DOMAIN detail[1].rows :
            \E l \in FailureLabels :
                detail[1].rows[i]["Failure_Probability"]
                    = model_proba[i][ClassIndex(l)]

\* C6: with no field edited, every field of the manual row holds its
\* STANDARD_PARAMS reference value.
C6_UntouchedRowIsReference ==
    (uploaded_file = None /\ sidebar = <<>>) =>
        \A param \in Range(keys) :
            input_df[1].rows[1][param] = default_val(param)

\* C7: an upload whose name does not end in .csv, .xls or .xlsx gets the
\* 'Unsupported file format' error and None, never the missing-columns
\* error, the processing error or an accepted table, whatever it contains.
C7_FormatCheckFirst ==
    (uploaded_file # None /\ ~SupportedExtension(TheFile.name)) =>
        /\ input_df = None
        /\ UNSUPPORTED \in msgs
        /\ MISSING \notin msgs
        /\ PROCESSING \notin msgs
        /\ SUCCESS \notin msgs
        /\ missing_shown = {}

\* C7 witness: an upload with an unsupported extension whose table lacks a
\* schema column got the format error
C7_Witness ==
    /\ uploaded_file # None
    /\ ~SupportedExtension(TheFile.name)
    /\ TheFile.parses
    /\ Absent # {}
    /\ UNSUPPORTED \in msgs

\* C8: a Predict request while the upload was rejected shows the warning
\* 'Please provide input parameters first' and no 'Error in prediction'.
C8_WarningWithoutInput ==
    (clicked /\ uploaded_file # None /\ input_df = None) =>
        (WARNING \in msgs /\ PREDICTION \notin msgs)

\* C9: the 'failure' style is applied to the status exactly when its text
\* says 'Machine Failure', and the text agrees with the Interpretation Guide.
C9_PolarityConsistent ==
    status # None =>
        /\ status[1].class = "failure" <=> SaysFailure(status[1].text)
        /\ status[1].class = "normal" <=> ~SaysFailure(status[1].text)
        /\ SaysFailure(status[1].text) <=> prediction[1] \in FailureLabels

\* C10: the Machine Status shown is the one of the first row's label, whatever
\* the other labels are; every row's label is in the Detailed Results table.
C10_StatusOfFirstRow ==
    status # None =>
        /\ status[1] = [class |-> status_class(prediction[1]),
                        text  |-> status_text(prediction[1])]
        /\ detail # None =>
              \A i \in DOMAIN prediction :
                  detail[1].rows[i]["Prediction"] = prediction[i]

\* C10 witness: a table whose first and last rows got different labels is
\* shown with its status and its Detailed Results
C10_Witness ==
    /\ status # None
    /\ detail # None
    /\ Len(prediction) >= 2
    /\ prediction[1] # prediction[Len(prediction)]

====
